---- MODULE Spec2Model ----
(***************************************************************************)
(* A model of the Transam Triton emulator (src/triton.cpp): the I/O state  *)
(* of class IOState, the VDU controller vdu_strobe, the keyboard handler   *)
(* key_press, the port handlers MachineIN / MachineOUT and the event loop  *)
(* of main.                                                                *)
(*                                                                         *)
(* main_memory is an uninitialised array: the variable `memory` holds the  *)
(* cells the program has stored to, and a cell that was never stored to    *)
(* reads as the indeterminate start-up content chosen by `mem_init`.       *)
(***************************************************************************)
EXTENDS Integers, Sequences, FiniteSets, TLC

VARIABLES
    key_buffer,       \* IOState::key_buffer
    led_buffer,       \* IOState::led_buffer
    vdu_buffer,       \* IOState::vdu_buffer
    port6,            \* IOState::port6
    oscillator,       \* IOState::oscillator
    tape_relay,       \* IOState::tape_relay
    cursor_position,  \* IOState::cursor_position
    tape_status,      \* IOState::tape_status: " ", "r" or "w"
    uart_status,      \* IOState::uart_status
    vdu_startrow,     \* IOState::vdu_startrow
    a,                \* state.a
    pc,               \* state.pc
    sp,               \* state.sp
    int_enable,       \* state.int_enable
    memory,           \* main_memory: the cells stored to so far
    mem_init,         \* which indeterminate content main_memory started with
    tape,             \* the fstream `tape` and the file TAPE it is bound to
    shifted,          \* main: shifted
    ctrl,             \* main: ctrl
    inFocus,          \* main: inFocus
    pause,            \* main: pause
    window_open,      \* main: window.isOpen()
    running_time,     \* main: running_time, the T-states charged in the frame
    in_frame,         \* main: control is inside the instruction loop (lines 689-704)
    held,             \* keys that are physically down (environment)
    hist              \* the operations performed so far, oldest first

vars == <<key_buffer, led_buffer, vdu_buffer, port6, oscillator, tape_relay,
          cursor_position, tape_status, uart_status, vdu_startrow,
          a, pc, sp, int_enable, memory, mem_init, tape,
          shifted, ctrl, inFocus, pause, window_open, running_time, in_frame,
          held, hist>>

io_vars == <<key_buffer, led_buffer, vdu_buffer, port6, oscillator, tape_relay,
             cursor_position, tape_status, uart_status, vdu_startrow>>

cpu_vars == <<a, pc, sp, int_enable>>

main_vars == <<shifted, ctrl, inFocus, pause, window_open, in_frame>>

(***************************************************************************)
(* Bounds of the exploration.                                              *)
(***************************************************************************)
MaxSteps == 2       \* operations per behaviour of Spec
MaxVduSteps == 1    \* port-5 writes per behaviour of SpecVdu
MaxKeySteps == 3    \* events and port-0 reads per behaviour of SpecKeys
MaxTableSteps == 1  \* key events per behaviour of SpecKeyTable
MaxTapeSteps == 6   \* port 2, 4 and 7 accesses per behaviour of SpecTape
MaxScrollWrites == 32  \* port-5 writes per behaviour of SpecScroll
MaxPortSteps == 2   \* port accesses per behaviour of SpecPorts
MaxFrameTurns == 2  \* frames and events per behaviour of SpecFrame

(***************************************************************************)
(* Program constants.                                                      *)
(***************************************************************************)
vdu_page == 4096        \* int vdu_page = 0x1000
PageSize == 1024        \* the "% 1024" of vdu_strobe: 16 rows of 64 cells
RowLen == 64            \* the "64" of vdu_strobe: cells per row
LastStartRow == 15      \* if (vdu_startrow > 15) vdu_startrow = 0
SPACE == 32             \* the blank written by vdu_strobe
Unrecognised == 255     \* int temp = 0xFF
MemSize == 65535        \* unsigned char main_memory[0xffff]
Word == 65536           \* state.pc and state.sp are 16 bits wide

(***************************************************************************)
(* C arithmetic.                                                           *)
(***************************************************************************)
\* The C++ remainder x % n for n > 0: it takes the sign of x.
CRem(x, n) == IF x >= 0 THEN x % n ELSE -((-x) % n)

\* (x & (1 << b)) != 0 for a byte x
Bit(x, b) == (x \div (2 ^ b)) % 2 = 1

Byte == 0..255

(***************************************************************************)
(* main_memory.                                                            *)
(***************************************************************************)
\* A program image, repeated every PageSize bytes: IN 1; MOV A,A; NOPs up
\* to offset 900; OUT 3; NOPs.
FrameProgram(addr) ==
    LET offset == addr % PageSize
    IN  CASE offset = 0   -> 219
          [] offset = 1   -> 1
          [] offset = 2   -> 127
          [] offset = 900 -> 211
          [] offset = 901 -> 3
          [] OTHER        -> 0

\* The content of main_memory[addr] before the first store to it: what the
\* stack held (g = 0, g = 1), or the program image (g = 2).
InitByte(g, addr) ==
    IF g = 0 THEN 0
    ELSE IF g = 2 THEN FrameProgram(addr)
    ELSE (addr * 7 + 3) % 256

\* main_memory[addr] read
MemAt(mem, g, addr) == IF addr \in DOMAIN mem THEN mem[addr] ELSE InitByte(g, addr)

\* main_memory[addr] = v
Store(mem, addr, v) == [x \in DOMAIN mem \cup {addr} |-> IF x = addr THEN v ELSE mem[x]]

\* main_memory[x] = v for every x of addrs
StoreAll(mem, addrs, v) == [x \in DOMAIN mem \cup addrs |-> IF x \in addrs THEN v ELSE mem[x]]

\* The address computed without the wrap inside the video page.
CellAddr_NoWrap(sr, p) == vdu_page + (RowLen * sr) + p

\* The address vdu_strobe computes for the cell at offset p from the start row.
CellAddr(sr, p) == vdu_page + CRem((RowLen * sr) + p, PageSize)


(***************************************************************************)
(* IOState::vdu_strobe.  Each case of the switch is an operator from the   *)
(* cursor cp, the start row sr and the memory mem to the three afterwards. *)
(***************************************************************************)
VduResult(cp, sr, mem) == [cursor_position |-> cp, vdu_startrow |-> sr, memory |-> mem]

\* The start row advanced without the wrap from 15 to 0.
NextStartRow_Unbounded(sr) == sr + 1

\* vdu_startrow++; if (vdu_startrow > 15) vdu_startrow = 0;
NextStartRow(sr) == IF sr + 1 > LastStartRow THEN 0 ELSE sr + 1

\* for (i = 0; i < 64; i++) memory[vdu_page + ((64*sr + cp + i) % 1024)] = 32;
BlankFrom(cp, sr, mem) ==
    StoreAll(mem, {CellAddr(sr, cp + i) : i \in 0..(RowLen - 1)}, SPACE)

\* case 0x08
CursorLeft(cp, sr, mem) ==
    VduResult(IF cp - 1 < 0 THEN cp - 1 + PageSize ELSE cp - 1, sr, mem)

\* case 0x09
CursorRight(cp, sr, mem) ==
    VduResult(IF cp + 1 >= PageSize THEN cp + 1 - PageSize ELSE cp + 1, sr, mem)

\* CursorDown blanking under the start row it found, not the new one.
CursorDown_OldStartRow(cp, sr, mem) ==
    IF cp + RowLen >= PageSize
    THEN VduResult(cp, NextStartRow(sr), BlankFrom(cp, sr, mem))
    ELSE VduResult(cp + RowLen, sr, mem)

\* case 0x0a
CursorDown(cp, sr, mem) ==
    IF cp + RowLen >= PageSize
    THEN VduResult(cp, NextStartRow(sr), BlankFrom(cp, NextStartRow(sr), mem))
    ELSE VduResult(cp + RowLen, sr, mem)

\* case 0x0b
CursorUp(cp, sr, mem) ==
    VduResult(IF cp - RowLen < 0 THEN cp - RowLen + PageSize ELSE cp - RowLen, sr, mem)

\* case 0x0c
PageClear(cp, sr, mem) ==
    VduResult(0, 0, StoreAll(mem, {vdu_page + i : i \in 0..(PageSize - 1)}, SPACE))

\* Where the loop "while (cursor_position % 64 != 0) cursor_position++" of
\* case 0x0d stops: the first multiple of 64 from cp upwards.
EndOfLine(cp) ==
    IF CRem(cp, RowLen) > 0 THEN cp + (RowLen - CRem(cp, RowLen)) ELSE cp - CRem(cp, RowLen)

\* case 0x0d
CarriageReturnErase(cp, sr, mem) ==
    IF CRem(cp, RowLen) # 0
    THEN VduResult(EndOfLine(cp) - RowLen, sr,
                   StoreAll(mem, {CellAddr(sr, p) : p \in cp..(EndOfLine(cp) - 1)}, SPACE))
    ELSE VduResult(cp, sr, mem)

\* case 0x1a
EraseLine(cp, sr, mem) ==
    VduResult(cp, sr,
        StoreAll(mem, {CellAddr(sr, (cp - CRem(cp, RowLen)) + i) : i \in 0..(RowLen - 1)}, SPACE))

\* case 0x1b
LineFeed(cp, sr, mem) ==
    VduResult(IF cp - RowLen < 0 THEN cp - RowLen + PageSize ELSE cp - RowLen,
              NextStartRow(sr), mem)

\* case 0x1c
HomeCursor(cp, sr, mem) == VduResult(0, sr, mem)

\* case 0x1d
CarriageReturn(cp, sr, mem) == VduResult(cp - CRem(cp, RowLen), sr, mem)

\* StoreChar storing at the cursor without the start row's offset.
StoreChar_NoStartRow(input, cp, sr, mem) ==
    LET stored == Store(mem, CellAddr(0, cp), input)
    IN  IF cp + 1 >= PageSize
        THEN VduResult(cp + 1 - RowLen, NextStartRow(sr),
                       BlankFrom(cp + 1 - RowLen, NextStartRow(sr), stored))
        ELSE VduResult(cp + 1, sr, stored)

\* default
StoreChar(input, cp, sr, mem) ==
    LET stored == Store(mem, CellAddr(sr, cp), input)
    IN  IF cp + 1 >= PageSize
        THEN VduResult(cp + 1 - RowLen, NextStartRow(sr),
                       BlankFrom(cp + 1 - RowLen, NextStartRow(sr), stored))
        ELSE VduResult(cp + 1, sr, stored)

\* The codes whose case leaves everything as it is: 0x00, 0x04, 0x18, 0x19.
NoEffectCodes == {0, 4, 24, 25}

\* vdu_strobe ignoring every code below 0x20 that the switch does not list.
vdu_strobe_IgnoreUnlisted(buf, cp, sr, mem) ==
    LET input == buf % 128
    IN  CASE input \in NoEffectCodes -> VduResult(cp, sr, mem)
          [] input = 8  -> CursorLeft(cp, sr, mem)
          [] input = 9  -> CursorRight(cp, sr, mem)
          [] input = 10 -> CursorDown(cp, sr, mem)
          [] input = 11 -> CursorUp(cp, sr, mem)
          [] input = 12 -> PageClear(cp, sr, mem)
          [] input = 13 -> CarriageReturnErase(cp, sr, mem)
          [] input = 26 -> EraseLine(cp, sr, mem)
          [] input = 27 -> LineFeed(cp, sr, mem)
          [] input = 28 -> HomeCursor(cp, sr, mem)
          [] input = 29 -> CarriageReturn(cp, sr, mem)
          [] input < 32 -> VduResult(cp, sr, mem)
          [] OTHER      -> StoreChar(input, cp, sr, mem)

\* void IOState::vdu_strobe(State8080* state), with vdu_buffer = buf
vdu_strobe(buf, cp, sr, mem) ==
    LET input == buf % 128
    IN  CASE input \in NoEffectCodes -> VduResult(cp, sr, mem)
          [] input = 8  -> CursorLeft(cp, sr, mem)
          [] input = 9  -> CursorRight(cp, sr, mem)
          [] input = 10 -> CursorDown(cp, sr, mem)
          [] input = 11 -> CursorUp(cp, sr, mem)
          [] input = 12 -> PageClear(cp, sr, mem)
          [] input = 13 -> CarriageReturnErase(cp, sr, mem)
          [] input = 26 -> EraseLine(cp, sr, mem)
          [] input = 27 -> LineFeed(cp, sr, mem)
          [] input = 28 -> HomeCursor(cp, sr, mem)
          [] input = 29 -> CarriageReturn(cp, sr, mem)
          [] OTHER      -> StoreChar(input, cp, sr, mem)

(***************************************************************************)
(* IOState::key_press.  Key holds the values of the sf::Keyboard::Key      *)
(* enumerators the program names (SFML 2.5: A = 0 ... Pause = 100,         *)
(* Unknown = -1).                                                          *)
(***************************************************************************)
Key == [Unknown |-> -1, A |-> 0, B |-> 1, Z |-> 25, Num0 |-> 26, Num1 |-> 27,
        Num2 |-> 28, Num3 |-> 29, Num4 |-> 30, Num5 |-> 31, Num6 |-> 32,
        Num7 |-> 33, Num8 |-> 34, Num9 |-> 35, Escape |-> 36, LControl |-> 37,
        LShift |-> 38, RControl |-> 41, RShift |-> 42, LBracket |-> 46,
        RBracket |-> 47, Semicolon |-> 48, Comma |-> 49, Period |-> 50,
        Quote |-> 51, Slash |-> 52, Backslash |-> 53, Equal |-> 55,
        Hyphen |-> 56, Space |-> 57, Enter |-> 58, Backspace |-> 59,
        Tab |-> 60, Left |-> 71, Right |-> 72, Up |-> 73, Down |-> 74,
        F1 |-> 85, F2 |-> 86, F3 |-> 87, F4 |-> 88, F5 |-> 89, F9 |-> 93,
        Pause |-> 100]

AllKeys == Key.Unknown..Key.Pause

\* The first switch of the ctrl == false branch (lines 194-203).
PlainKeyTemp(key) ==
    CASE key = Key.Escape    -> 27
      [] key = Key.Space     -> 32
      [] key = Key.Enter     -> 13
      [] key = Key.Backspace -> 8
      [] key = Key.Left      -> 8
      [] key = Key.Right     -> 9
      [] key = Key.Down      -> 10
      [] key = Key.Up        -> 11
      [] OTHER               -> Unrecognised

\* The shifted == false part (lines 205-226), from the temp so far.
UnshiftedKeyTemp(key, temp) ==
    CASE key >= Key.A /\ key <= Key.Z       -> key + 97
      [] key >= Key.Num0 /\ key <= Key.Num9 -> key + 22
      [] key = Key.LBracket  -> 91
      [] key = Key.RBracket  -> 93
      [] key = Key.Semicolon -> 59
      [] key = Key.Comma     -> 44
      [] key = Key.Period    -> 46
      [] key = Key.Quote     -> 39
      [] key = Key.Slash     -> 47
      [] key = Key.Backslash -> 92
      [] key = Key.Equal     -> 61
      [] key = Key.Hyphen    -> 45
      [] OTHER               -> temp

\* The shifted == true part (lines 227-255), from the temp so far.
ShiftedKeyTemp(key, temp) ==
    CASE key >= Key.A /\ key <= Key.Z -> key + 65
      [] key = Key.Num0      -> 41
      [] key = Key.Num1      -> 33
      [] key = Key.Num2      -> 34
      [] key = Key.Num3      -> 35
      [] key = Key.Num4      -> 36
      [] key = Key.Num5      -> 37
      [] key = Key.Num6      -> 94
      [] key = Key.Num7      -> 38
      [] key = Key.Num8      -> 42
      [] key = Key.Num9      -> 40
      [] key = Key.LBracket  -> 123
      [] key = Key.RBracket  -> 125
      [] key = Key.Semicolon -> 58
      [] key = Key.Comma     -> 60
      [] key = Key.Period    -> 62
      [] key = Key.Quote     -> 64
      [] key = Key.Slash     -> 63
      [] key = Key.Backslash -> 124
      [] key = Key.Equal     -> 43
      [] key = Key.Hyphen    -> 95
      [] OTHER               -> temp

\* The ctrl == true branch (lines 257-269).
ControlKeyTemp(key) ==
    CASE key = Key.Quote     -> 0
      [] key = Key.Backslash -> 28
      [] key = Key.LBracket  -> 27
      [] key = Key.RBracket  -> 29
      [] key >= Key.A /\ key <= Key.Z -> key + 1
      [] OTHER               -> Unrecognised

\* The value of temp at line 271.
KeyTemp(key, sh, ct) ==
    IF ct = FALSE
    THEN IF sh = FALSE
         THEN UnshiftedKeyTemp(key, PlainKeyTemp(key))
         ELSE ShiftedKeyTemp(key, PlainKeyTemp(key))
    ELSE ControlKeyTemp(key)

\* x | 0x80
SetStrobe(x) == IF Bit(x, 7) THEN x ELSE x + 128

\* void IOState::key_press(event, key, shifted, ctrl): key_buffer afterwards,
\* kb being key_buffer before.
key_press(event, key, sh, ct, kb) ==
    LET temp == KeyTemp(key, sh, ct)
    IN  IF temp # Unrecognised
        THEN IF event = "KeyPressed" THEN SetStrobe(temp) ELSE temp
        ELSE kb

(***************************************************************************)
(* The fstream `tape` and the file TAPE.  A record: exists and data are    *)
(* the file, is_open, mode and pos the stream's buffer, eofbit and failbit *)
(* the stream's state flags.                                               *)
(***************************************************************************)
\* A char that was declared and never assigned (char c; of MachineIN).
IndeterminateChars == {0, 165}

\* tape.open("TAPE", ios::in | ios::binary)
TapeOpenIn(t) ==
    IF t.is_open \/ ~t.exists
    THEN [t EXCEPT !.failbit = TRUE]
    ELSE [t EXCEPT !.is_open = TRUE, !.mode = "in", !.pos = 0,
                   !.eofbit = FALSE, !.failbit = FALSE]

\* The file opened for output with its content discarded (ios::trunc).
TapeOpenApp_Truncate(t) ==
    IF t.is_open
    THEN [t EXCEPT !.failbit = TRUE]
    ELSE [t EXCEPT !.is_open = TRUE, !.mode = "out", !.exists = TRUE, !.data = <<>>,
                   !.eofbit = FALSE, !.failbit = FALSE]

\* tape.open("TAPE", ios::out | ios::app | ios::binary)
TapeOpenApp(t) ==
    IF t.is_open
    THEN [t EXCEPT !.failbit = TRUE]
    ELSE [t EXCEPT !.is_open = TRUE, !.mode = "out", !.exists = TRUE,
                   !.eofbit = FALSE, !.failbit = FALSE]

\* tape.get(c) succeeds: the stream is good, open for input and not at the end.
TapeCanGet(t) ==
    ~t.eofbit /\ ~t.failbit /\ t.is_open /\ t.mode = "in" /\ t.pos < Len(t.data)

\* tape.get(c): the stream afterwards
TapeGet(t) ==
    IF TapeCanGet(t)
    THEN [t EXCEPT !.pos = t.pos + 1]
    ELSE IF ~t.eofbit /\ ~t.failbit
         THEN [t EXCEPT !.eofbit = TRUE, !.failbit = TRUE]
         ELSE [t EXCEPT !.failbit = TRUE]

\* tape.put(c): the stream afterwards
TapePut(t, c) ==
    IF ~t.eofbit /\ ~t.failbit /\ t.is_open /\ t.mode = "out"
    THEN [t EXCEPT !.data = Append(t.data, c)]
    ELSE [t EXCEPT !.failbit = TRUE]

\* tape.close()
TapeClose(t) ==
    IF t.is_open
    THEN [t EXCEPT !.is_open = FALSE]
    ELSE [t EXCEPT !.failbit = TRUE]

(***************************************************************************)
(* The history: one entry per operation, with the values the operation     *)
(* found.  `called` tells whether the operation called vdu_strobe (a port  *)
(* write) or key_press (an event).                                         *)
(***************************************************************************)
Entry(op, x, y, called) ==
    [op |-> op, x |-> x, y |-> y, called |-> called,
     cursor |-> cursor_position, startrow |-> vdu_startrow, vdu |-> vdu_buffer,
     key |-> key_buffer, acc |-> a, shifted |-> shifted, ctrl |-> ctrl,
     held |-> held, pc |-> pc, sp |-> sp, inte |-> int_enable,
     relay |-> tape_relay, status |-> tape_status, tape |-> tape,
     focus |-> inFocus]

Last == hist[Len(hist)]

(***************************************************************************)
(* MachineIN, as the frame loop calls it for opcode 0xDB (lines 693-696).  *)
(***************************************************************************)
\* case 4 of MachineIN
TapeIN ==
    IF tape_relay
    THEN LET opened == IF tape_status = " " THEN TapeOpenIn(tape) ELSE tape
             status == IF tape_status = " " THEN "r" ELSE tape_status
         IN  /\ tape_status' = status
             /\ IF status = "r" /\ ~opened.eofbit
                THEN /\ tape' = TapeGet(opened)
                     /\ IF TapeCanGet(opened)
                        THEN a' = opened.data[opened.pos + 1]
                        ELSE a' \in IndeterminateChars
                ELSE /\ tape' = opened
                     /\ a' = 0
    ELSE UNCHANGED <<a, tape, tape_status>>

\* MachineIN with a port that has no device reading as 0xFF.
MachineIN_FloatingBus(port) ==
    /\ pause = FALSE
    /\ CASE port = 0 -> a' = key_buffer % 256 /\ UNCHANGED <<tape, tape_status>>
         [] port = 1 -> a' = uart_status % 256 /\ UNCHANGED <<tape, tape_status>>
         [] port = 4 -> TapeIN
         [] OTHER    -> a' = 255 /\ UNCHANGED <<tape, tape_status>>
    /\ pc' = (pc + 2) % Word
    /\ running_time' = running_time + 10
    /\ hist' = Append(hist, Entry("IN", port, 0, FALSE))
    /\ UNCHANGED <<key_buffer, led_buffer, vdu_buffer, port6, oscillator,
                   tape_relay, cursor_position, uart_status, vdu_startrow,
                   sp, int_enable, memory, mem_init, main_vars, held>>

\* MachineIN with a read of port 0 clearing the strobe bit of key_buffer.
MachineIN_ClearStrobe(port) ==
    /\ pause = FALSE
    /\ CASE port = 0 -> a' = key_buffer % 256 /\ UNCHANGED <<tape, tape_status>>
         [] port = 1 -> a' = uart_status % 256 /\ UNCHANGED <<tape, tape_status>>
         [] port = 4 -> TapeIN
         [] OTHER    -> UNCHANGED <<a, tape, tape_status>>
    /\ key_buffer' = IF port = 0 /\ Bit(key_buffer, 7)
                     THEN key_buffer - 128 ELSE key_buffer
    /\ pc' = (pc + 2) % Word
    /\ running_time' = running_time + 10
    /\ hist' = Append(hist, Entry("IN", port, 0, FALSE))
    /\ UNCHANGED <<led_buffer, vdu_buffer, port6, oscillator,
                   tape_relay, cursor_position, uart_status, vdu_startrow,
                   sp, int_enable, memory, mem_init, main_vars, held>>

MachineIN(port) ==
    /\ pause = FALSE
    /\ CASE port = 0 -> a' = key_buffer % 256 /\ UNCHANGED <<tape, tape_status>>
         [] port = 1 -> a' = uart_status % 256 /\ UNCHANGED <<tape, tape_status>>
         [] port = 4 -> TapeIN
         [] OTHER    -> UNCHANGED <<a, tape, tape_status>>
    /\ pc' = (pc + 2) % Word
    /\ running_time' = running_time + 10
    /\ hist' = Append(hist, Entry("IN", port, 0, FALSE))
    /\ UNCHANGED <<key_buffer, led_buffer, vdu_buffer, port6, oscillator,
                   tape_relay, cursor_position, uart_status, vdu_startrow,
                   sp, int_enable, memory, mem_init, main_vars, held>>

(***************************************************************************)
(* MachineOUT, as the frame loop calls it for opcode 0xD3 (lines 697-700), *)
(* v being state.a.                                                        *)
(***************************************************************************)
\* TapeOUT turning a reading session into a writing one.
TapeOUT_SwitchMode(v) ==
    IF tape_relay
    THEN LET opened == IF tape_status = " " THEN TapeOpenApp(tape)
                       ELSE IF tape_status = "r" THEN TapeOpenApp(TapeClose(tape))
                       ELSE tape
         IN  /\ tape_status' = "w"
             /\ tape' = TapePut(opened, v)
    ELSE UNCHANGED <<tape, tape_status>>

\* case 2 of MachineOUT
TapeOUT(v) ==
    IF tape_relay
    THEN LET opened == IF tape_status = " " THEN TapeOpenApp(tape) ELSE tape
             status == IF tape_status = " " THEN "w" ELSE tape_status
         IN  /\ tape_status' = status
             /\ tape' = IF status = "w" THEN TapePut(opened, v) ELSE opened
    ELSE UNCHANGED <<tape, tape_status>>

\* Whether case 5 of MachineOUT calls vdu_strobe (lines 331 and 333).
VduTriggered(buf, v) == buf # v /\ v >= 128

\* VduOUT calling vdu_strobe on every write with bit 7 set.
VduOUT_EveryWrite(v) ==
    /\ vdu_buffer' = v
    /\ IF v >= 128
       THEN LET r == vdu_strobe(v, cursor_position, vdu_startrow, memory)
            IN  /\ cursor_position' = r.cursor_position
                /\ vdu_startrow' = r.vdu_startrow
                /\ memory' = r.memory
       ELSE UNCHANGED <<cursor_position, vdu_startrow, memory>>

\* case 5 of MachineOUT
VduOUT(v) ==
    IF vdu_buffer # v
    THEN /\ vdu_buffer' = v
         /\ IF v >= 128
            THEN LET r == vdu_strobe(v, cursor_position, vdu_startrow, memory)
                 IN  /\ cursor_position' = r.cursor_position
                     /\ vdu_startrow' = r.vdu_startrow
                     /\ memory' = r.memory
            ELSE UNCHANGED <<cursor_position, vdu_startrow, memory>>
    ELSE UNCHANGED <<vdu_buffer, cursor_position, vdu_startrow, memory>>

\* RelayOUT releasing the relay without closing the file.
RelayOUT_LeavesOpen(v) ==
    /\ oscillator' = Bit(v, 6)
    /\ tape_relay' = Bit(v, 7)
    /\ UNCHANGED <<tape, tape_status>>

\* case 7 of MachineOUT
RelayOUT(v) ==
    /\ oscillator' = Bit(v, 6)
    /\ IF Bit(v, 7) /\ tape_relay = FALSE
       THEN tape_relay' = TRUE /\ UNCHANGED <<tape, tape_status>>
       ELSE IF ~Bit(v, 7) /\ tape_relay
            THEN /\ tape_relay' = FALSE
                 /\ IF tape_status = "w" \/ tape_status = "r"
                    THEN tape' = TapeClose(tape) /\ tape_status' = " "
                    ELSE UNCHANGED <<tape, tape_status>>
            ELSE UNCHANGED <<tape_relay, tape, tape_status>>

MachineOUT(port, v) ==
    /\ pause = FALSE
    /\ a' = v
    /\ CASE port = 2 -> /\ TapeOUT(v)
                        /\ UNCHANGED <<led_buffer, vdu_buffer, cursor_position, vdu_startrow,
                                       memory, port6, oscillator, tape_relay>>
         [] port = 3 -> /\ led_buffer' = v
                        /\ UNCHANGED <<tape, tape_status, vdu_buffer, cursor_position,
                                       vdu_startrow, memory, port6, oscillator, tape_relay>>
         [] port = 5 -> /\ VduOUT(v)
                        /\ UNCHANGED <<tape, tape_status, led_buffer, port6, oscillator,
                                       tape_relay>>
         [] port = 6 -> /\ port6' = v \div 64
                        /\ UNCHANGED <<tape, tape_status, led_buffer, vdu_buffer,
                                       cursor_position, vdu_startrow, memory, oscillator,
                                       tape_relay>>
         [] port = 7 -> /\ RelayOUT(v)
                        /\ UNCHANGED <<led_buffer, vdu_buffer, cursor_position, vdu_startrow,
                                       memory, port6>>
         [] OTHER    -> UNCHANGED <<tape, tape_status, led_buffer, vdu_buffer,
                                    cursor_position, vdu_startrow, memory, port6,
                                    oscillator, tape_relay>>
    /\ pc' = (pc + 2) % Word
    /\ running_time' = running_time + 10
    /\ hist' = Append(hist, Entry("OUT", port, v,
                                  port = 5 /\ VduTriggered(vdu_buffer, v)))
    /\ UNCHANGED <<key_buffer, uart_status, sp, int_enable, mem_init, main_vars, held>>

(***************************************************************************)
(* One turn of the event loop of main (lines 602-683) for an event of the  *)
(* given type; code is event.key.code of a key event.                      *)
(***************************************************************************)
KeyEventTypes == {"KeyPressed", "KeyReleased"}
WindowEventTypes == {"Closed", "LostFocus", "GainedFocus"}

\* main_memory[idx] = v of the panel buttons: idx is state.sp - 2 or - 1 as
\* an int.  An index outside 0..MemSize-1 is a store to the bytes that adjoin
\* the array; memory keeps it under that index, and no cell of the array
\* changes.
PushStore(mem, idx, v) == Store(mem, idx, v)

\* PanelReset setting the stack pointer to 0 as well.
PanelReset_WithStack ==
    pc' = 0 /\ int_enable' = FALSE /\ sp' = 0 /\ UNCHANGED memory

\* The reset of F1 (lines 639-640).
PanelReset ==
    pc' = 0 /\ int_enable' = FALSE /\ UNCHANGED <<memory, sp>>

\* PanelInterrupt without the test of int_enable.
PanelInterrupt_Unchecked(vector) ==
    /\ int_enable' = FALSE
    /\ memory' = PushStore(PushStore(memory, sp - 2, pc % 256), sp - 1, pc \div 256)
    /\ sp' = (sp - 2) % Word
    /\ pc' = vector

\* The interrupt of F2 and F3 (lines 644-650 and 654-660).
PanelInterrupt(vector) ==
    IF int_enable
    THEN /\ int_enable' = FALSE
         /\ memory' = PushStore(PushStore(memory, sp - 2, pc % 256), sp - 1, pc \div 256)
         /\ sp' = (sp - 2) % Word
         /\ pc' = vector
    ELSE UNCHANGED <<int_enable, memory, sp, pc>>

\* shifted after lines 617-631
ShiftedAfter(type, code) ==
    IF code = Key.LShift \/ code = Key.RShift
    THEN IF type = "KeyPressed" THEN TRUE
         ELSE IF type = "KeyReleased" THEN FALSE ELSE shifted
    ELSE shifted

\* ctrl after lines 617-631
CtrlAfter(type, code) ==
    IF code = Key.LControl \/ code = Key.RControl
    THEN IF type = "KeyPressed" THEN TRUE
         ELSE IF type = "KeyReleased" THEN FALSE ELSE ctrl
    ELSE ctrl

\* Whether this turn of the loop calls io.key_press (lines 673-675 and 679-681).
CallsKeyPress(type, code, focus) ==
    /\ focus
    /\ \/ type = "KeyReleased"
       \/ type = "KeyPressed" /\ code \notin {Key.F1, Key.F2, Key.F3, Key.F4, Key.F9}

HandleEvent(type, code) ==
    LET focus == IF type = "LostFocus" THEN FALSE
                 ELSE IF type = "GainedFocus" THEN TRUE ELSE inFocus
        sh == ShiftedAfter(type, code)
        ct == CtrlAfter(type, code)
        pressed == focus /\ type = "KeyPressed"
    IN  /\ window_open
        /\ inFocus' = focus
        /\ shifted' = sh
        /\ ctrl' = ct
        /\ window_open' = IF type = "Closed" \/ (pressed /\ code = Key.F9)
                          THEN FALSE ELSE window_open
        /\ IF pressed /\ code = Key.F1
           THEN PanelReset
           ELSE IF pressed /\ code = Key.F2 THEN PanelInterrupt(8)
           ELSE IF pressed /\ code = Key.F3 THEN PanelInterrupt(16)
           ELSE UNCHANGED <<pc, int_enable, memory, sp>>
        /\ pause' = IF pressed /\ code = Key.F4 THEN ~pause ELSE pause
        /\ key_buffer' = IF CallsKeyPress(type, code, focus)
                         THEN key_press(type, code, sh, ct, key_buffer)
                         ELSE key_buffer
        /\ held' = IF type = "KeyPressed" THEN held \cup {code}
                   ELSE IF type = "KeyReleased" THEN held \ {code} ELSE held
        /\ hist' = Append(hist, [Entry(type, code, 0, CallsKeyPress(type, code, focus))
                                 EXCEPT !.shifted = sh, !.ctrl = ct])
        /\ UNCHANGED <<led_buffer, vdu_buffer, port6, oscillator, tape_relay,
                       cursor_position, tape_status, uart_status, vdu_startrow,
                       a, mem_init, tape, running_time, in_frame>>

(***************************************************************************)
(* Start-up.  main sets io.uart_status, io.tape_status, io.vdu_startrow,   *)
(* state.a and state.pc; the other fields of io and state, and             *)
(* main_memory, are never initialised, so each starts with whatever the    *)
(* stack held.  StartUps lists the contents taken for them, with the file  *)
(* TAPE the program finds.                                                 *)
(***************************************************************************)
StartUp(kb, led, vdu, p6, osc, relay, cur, s, inte, mem, exists, data, rt) ==
    [key_buffer |-> kb, led_buffer |-> led, vdu_buffer |-> vdu, port6 |-> p6,
     oscillator |-> osc, tape_relay |-> relay, cursor_position |-> cur,
     sp |-> s, int_enable |-> inte, mem_init |-> mem,
     tape_exists |-> exists, tape_data |-> data, running_time |-> rt]

StartUps ==
    { StartUp(0,    0,   0,   0, FALSE, FALSE, 0,    0,     FALSE, 0, FALSE, <<>>, 0),
      StartUp(255,  255, 138, 3, TRUE,  TRUE,  1000, 5248,  TRUE,  1, TRUE,  <<17, 34>>, 40000),
      StartUp(128,  1,   128, 1, FALSE, FALSE, -1,   1,     TRUE,  1, TRUE,  <<>>, 31999),
      StartUp(4660, 7,   394, 2, TRUE,  TRUE,  1024, 65535, FALSE, 0, FALSE, <<>>, -7),
      StartUp(97,   0,   10,  0, FALSE, TRUE,  1023, 5248,  TRUE,  0, TRUE,  <<17>>, 12) }

\* The state with start-up content u in which the cursor is cur, the start
\* row sr, the last port-5 value buf and the modifiers sh and ct.
StateFrom(u, cur, sr, buf, sh, ct) ==
    /\ key_buffer = u.key_buffer
    /\ led_buffer = u.led_buffer
    /\ vdu_buffer = buf
    /\ port6 = u.port6
    /\ oscillator = u.oscillator
    /\ tape_relay = u.tape_relay
    /\ cursor_position = cur
    /\ tape_status = " "
    /\ uart_status = 17
    /\ vdu_startrow = sr
    /\ a = 0
    /\ pc = 0
    /\ sp = u.sp
    /\ int_enable = u.int_enable
    /\ memory = <<>>
    /\ mem_init = u.mem_init
    /\ tape = [exists |-> u.tape_exists, data |-> u.tape_data, is_open |-> FALSE,
               mode |-> "in", pos |-> 0, eofbit |-> FALSE, failbit |-> FALSE]
    /\ shifted = sh
    /\ ctrl = ct
    /\ inFocus = TRUE
    /\ pause = FALSE
    /\ window_open = TRUE
    /\ running_time = u.running_time
    /\ in_frame = FALSE
    /\ held = {}
    /\ hist = <<>>

\* The state after start-up (lines 395-559): io.vdu_startrow = 0, shifted
\* and ctrl false, the rest as the start-up content gives it.
Init == \E u \in StartUps : StateFrom(u, u.cursor_position, 0, u.vdu_buffer, FALSE, FALSE)

(***************************************************************************)
(* Spec: the whole machine from start-up, MaxSteps operations long.        *)
(***************************************************************************)
\* The window system reports the release of a key that is down.
Deliverable(type, code) == type = "KeyReleased" => code \in held

InPorts == {0, 1, 4, 9}
OutPorts == {2, 3, 5, 6, 7, 9}
OutValues == {10, 128, 138, 193}
StepKeys == {Key.A, Key.Tab, Key.LShift, Key.F1, Key.F2, Key.F3, Key.F4, Key.F9}

Next ==
    \/ \E port \in InPorts : Len(hist) < MaxSteps /\ MachineIN(port)
    \/ \E port \in OutPorts, v \in OutValues : Len(hist) < MaxSteps /\ MachineOUT(port, v)
    \/ \E type \in KeyEventTypes, code \in StepKeys :
          Len(hist) < MaxSteps /\ Deliverable(type, code) /\ HandleEvent(type, code)
    \/ \E type \in WindowEventTypes : Len(hist) < MaxSteps /\ HandleEvent(type, Key.Unknown)

Spec == Init /\ [][Next]_vars

(***************************************************************************)
(* SpecVdu: vdu_strobe as a function of the state it finds.  The start     *)
(* draws the cursor, the start row, the previous port-5 value and the      *)
(* content of the video page from states the VDU can be in, and the        *)
(* actions are writes to port 5.                                           *)
(***************************************************************************)
\* Both ends and the inside of the first row, of a middle row and of the
\* last row, and the cells next to them.
VduCursors == {0, 1, 63, 64, 65, 127, 500, 959, 960, 961, 1000, 1022, 1023}
VduStartRows == {0, 1, LastStartRow}
VduBuffers == {0, 138}
\* Bit 7 clear (0x00, 0x0A), every case of the switch, codes the switch does
\* not list (0x01, 0x1F), and characters (0x20, 0x41, 0x7F).
VduValues == {0, 10, 128, 129, 132, 136, 137, 138, 139, 140, 141, 152, 153,
              154, 155, 156, 157, 159, 160, 193, 255}

VduStartUps == {u \in StartUps : u.cursor_position = 1000}

InitVdu ==
    \E u \in VduStartUps, cur \in VduCursors, sr \in VduStartRows, buf \in VduBuffers :
        StateFrom(u, cur, sr, buf, FALSE, FALSE)

NextVdu ==
    \E v \in VduValues : Len(hist) < MaxVduSteps /\ MachineOUT(5, v)

SpecVdu == InitVdu /\ [][NextVdu]_vars

(***************************************************************************)
(* SpecKeys: sequences of events and port-0 reads from start-up.           *)
(***************************************************************************)
SeqKeys == {Key.A, Key.B, Key.Num1, Key.Tab, Key.LShift, Key.LControl, Key.F1, Key.F4}

NextKeys ==
    \/ \E type \in KeyEventTypes, code \in SeqKeys :
          Len(hist) < MaxKeySteps /\ Deliverable(type, code) /\ HandleEvent(type, code)
    \/ \E type \in WindowEventTypes : Len(hist) < MaxKeySteps /\ HandleEvent(type, Key.Unknown)
    \/ Len(hist) < MaxKeySteps /\ MachineIN(0)

SpecKeys == Init /\ [][NextKeys]_vars

(***************************************************************************)
(* SpecKeyTable: key_press as a function of the key and the modifiers.     *)
(* The start draws the modifiers, and the actions are the key events of    *)
(* every key code.                                                         *)
(***************************************************************************)
TableStartUps == {u \in StartUps : u.key_buffer \in {0, 255}}

InitKeyTable ==
    \E u \in TableStartUps, sh \in BOOLEAN, ct \in BOOLEAN :
        StateFrom(u, u.cursor_position, 0, u.vdu_buffer, sh, ct)

NextKeyTable ==
    \E type \in KeyEventTypes, code \in AllKeys :
        Len(hist) < MaxTableSteps /\ HandleEvent(type, code)

SpecKeyTable == InitKeyTable /\ [][NextKeyTable]_vars

(***************************************************************************)
(* SpecTape: sequences of accesses to the tape ports (2, 4 and 7) from     *)
(* start-up.                                                               *)
(***************************************************************************)
TapeValues == {17, 34}
RelayValues == {0, 128}

NextTape ==
    \/ \E v \in TapeValues : Len(hist) < MaxTapeSteps /\ MachineOUT(2, v)
    \/ Len(hist) < MaxTapeSteps /\ MachineIN(4)
    \/ \E v \in RelayValues : Len(hist) < MaxTapeSteps /\ MachineOUT(7, v)

SpecTape == Init /\ [][NextTape]_vars

(***************************************************************************)
(* SpecRom: start-up from the point where the I/O registers have been      *)
(* assigned (line 442) to the point where the processor is set going       *)
(* (line 559): the ROM images of the chosen set are read into main_memory. *)
(***************************************************************************)
\* load_rom, lines 365-380: the length a size string stands for, 0 if none.
RomLength(size) ==
    IF size = "8k" THEN 8192
    ELSE IF size = "4k" THEN 4096
    ELSE IF size = "2k" THEN 2048
    ELSE IF size = "1k" THEN 1024
    ELSE 0

\* The k-th byte of the image file loaded at start_address (file content is
\* the environment's; one content per file is followed).
RomByte(start_address, k) == (start_address \div PageSize + (k * 5) + 1) % 256

\* The files load_rom may find for an image of rom_length bytes: none, one
\* shorter than rom_length, one of exactly rom_length bytes.
RomFiles(rom_length) ==
    {[exists |-> FALSE, len |-> 0]}
        \cup {[exists |-> TRUE, len |-> n] : n \in {3, rom_length}}

\* rom.read((char *) &main_memory[start_address], rom_length), line 384:
\* the bytes the file has, at most rom_length of them, are stored from
\* index start_address upwards with no check against the end of the array.
RomRead(mem, start_address, rom_length, file) ==
    LET count == IF file.len < rom_length THEN file.len ELSE rom_length
        cells == start_address .. (start_address + count - 1)
    IN  [x \in DOMAIN mem \cup cells |->
            IF x \in cells THEN RomByte(start_address, x - start_address) ELSE mem[x]]

\* load_rom, lines 361-393; the entry's `called` is the value returned.
load_rom(start_address, size, file) ==
    LET rom_length == RomLength(size)
        opened == rom_length # 0 /\ file.exists
    IN  /\ memory' = IF opened THEN RomRead(memory, start_address, rom_length, file)
                     ELSE memory
        /\ hist' = Append(hist, Entry("load_rom", start_address, size, opened))
        /\ UNCHANGED <<io_vars, cpu_vars, main_vars, mem_init, tape, running_time, held>>

\* main, lines 444-552: the images of each ROM set, in loading order.  Sets
\* 5.1 and 5.2, and 7.2 and 7.2DEC, differ in file names only.
RomSets ==
    { << <<0, "1k">>, <<3072, "1k">>, <<57344, "8k">> >>,
      << <<0, "1k">>, <<1024, "1k">>, <<2048, "1k">> >>,
      << <<0, "1k">>, <<1024, "1k">>, <<2048, "1k">>, <<3072, "1k">> >>,
      << <<0, "1k">>, <<3072, "1k">>, <<57344, "1k">>, <<58368, "1k">>,
         <<59392, "1k">>, <<60416, "1k">>, <<61440, "1k">>, <<62464, "1k">>,
         <<63488, "1k">>, <<64512, "1k">> >> }

\* The loads made so far are the first ones of `set` and none has failed
\* (a failed load_rom is followed by exit(1)).
Loading(set) ==
    /\ Len(hist) <= Len(set)
    /\ \A k \in 1..Len(hist) :
          /\ hist[k].op = "load_rom"
          /\ hist[k].x = set[k][1]
          /\ hist[k].y = set[k][2]
          /\ hist[k].called

\* main, lines 444-552: the next load_rom call of the chosen set.
LoadNext ==
    /\ ~window_open
    /\ \E set \in RomSets :
          /\ Loading(set)
          /\ Len(hist) < Len(set)
          /\ LET image == set[Len(hist) + 1]
             IN  \E file \in RomFiles(RomLength(image[2])) :
                    load_rom(image[1], image[2], file)

\* main, lines 553-555: an argument that names no ROM set ends the program.
InvalidArgument ==
    /\ ~window_open
    /\ hist = <<>>
    /\ hist' = <<Entry("exit", 1, 0, FALSE)>>
    /\ UNCHANGED <<io_vars, cpu_vars, main_vars, memory, mem_init, tape, running_time,
                   held>>

\* main, lines 557-562: every image of the set is in; the processor starts
\* at 0 and the window opens.
StartMachine ==
    /\ ~window_open
    /\ \E set \in RomSets : Loading(set) /\ Len(hist) = Len(set)
    /\ a' = 0
    /\ pc' = 0
    /\ window_open' = TRUE
    /\ UNCHANGED <<io_vars, sp, int_enable, memory, mem_init, tape,
                   shifted, ctrl, inFocus, pause, running_time, in_frame, held, hist>>

\* The start-up contents followed through the loading.
RomStartUps == {u \in StartUps : u.mem_init = 1 /\ u.sp = 1}

\* Line 443: the I/O registers assigned, state.a and state.pc not yet, the
\* window not yet created.
InitRom ==
    \E u \in RomStartUps : \E regs \in {<<0, 0>>, <<165, 4660>>} :
        /\ key_buffer = u.key_buffer
        /\ led_buffer = u.led_buffer
        /\ vdu_buffer = u.vdu_buffer
        /\ port6 = u.port6
        /\ oscillator = u.oscillator
        /\ tape_relay = u.tape_relay
        /\ cursor_position = u.cursor_position
        /\ tape_status = " "
        /\ uart_status = 17
        /\ vdu_startrow = 0
        /\ a = regs[1]
        /\ pc = regs[2]
        /\ sp = u.sp
        /\ int_enable = u.int_enable
        /\ memory = <<>>
        /\ mem_init = u.mem_init
        /\ tape = [exists |-> u.tape_exists, data |-> u.tape_data, is_open |-> FALSE,
                   mode |-> "in", pos |-> 0, eofbit |-> FALSE, failbit |-> FALSE]
        /\ shifted = FALSE
        /\ ctrl = FALSE
        /\ inFocus = TRUE
        /\ pause = FALSE
        /\ window_open = FALSE
        /\ running_time = u.running_time
        /\ in_frame = FALSE
        /\ held = {}
        /\ hist = <<>>

NextRom ==
    \/ LoadNext
    \/ InvalidArgument
    \/ StartMachine

SpecRom == InitRom /\ [][NextRom]_vars

(***************************************************************************)
(* SpecScroll: the program sends code 0x0A to the VDU again and again from *)
(* the home position, MaxScrollWrites port-5 writes long.  Between two     *)
(* writes of 0x8A it writes the same code with bit 7 clear, without which  *)
(* the second 0x8A would equal vdu_buffer and be ignored (line 331).       *)
(***************************************************************************)
ScrollStartUps == {u \in StartUps : u.cursor_position = 0 \/ u.cursor_position = 1000}

ScrollBuffers == {10, 138}

InitScroll ==
    \E u \in ScrollStartUps, sr \in 0..LastStartRow, buf \in ScrollBuffers :
        StateFrom(u, 0, sr, buf, FALSE, FALSE)

NextScroll ==
    \/ Len(hist) < MaxScrollWrites /\ vdu_buffer # 138 /\ MachineOUT(5, 138)
    \/ Len(hist) < MaxScrollWrites /\ vdu_buffer = 138 /\ MachineOUT(5, 10)

SpecScroll == InitScroll /\ [][NextScroll]_vars

(***************************************************************************)
(* SpecPorts: IN and OUT on every port number the switches of MachineIN    *)
(* and MachineOUT name, and on some they do not name, MaxPortSteps         *)
(* accesses long.                                                          *)
(***************************************************************************)
AllPorts == 0..8 \cup {255}

PortValues == {10, 138}

NextPorts ==
    \/ \E port \in AllPorts : Len(hist) < MaxPortSteps /\ MachineIN(port)
    \/ \E port \in AllPorts, v \in PortValues :
          Len(hist) < MaxPortSteps /\ MachineOUT(port, v)

SpecPorts == Init /\ [][NextPorts]_vars

(***************************************************************************)
(* SpecFrame: the main loop of main (lines 598-706) frame by frame: the    *)
(* events are handled, then, unless the machine is paused, instructions    *)
(* are executed until running_time reaches operations_per_frame.           *)
(* get_memory and Emulate8080Op are declared in 8080.hpp; they are taken   *)
(* as the specification of the CPU core describes them.                    *)
(***************************************************************************)
framerate == 25

\* operations_per_frame = 800000 / framerate, line 419
operations_per_frame == 800000 \div framerate

\* get_memory(&state, addr): the byte of memory at addr.
get_memory(addr) == MemAt(memory, mem_init, addr % Word)

\* The T-states Emulate8080Op returns for the opcodes of the program image:
\* MOV r,r 5, NOP 4.
StepCycles(opcode) == IF opcode = 127 THEN 5 ELSE 4

\* Emulate8080Op(&state) for the opcodes of the program image (NOP and
\* MOV A,A): PC moves past the one-byte instruction and nothing else changes.
Emulate8080Op(opcode) ==
    /\ pc' = (pc + 1) % Word
    /\ running_time' = running_time + StepCycles(opcode)
    /\ UNCHANGED <<io_vars, a, sp, int_enable, memory, mem_init, tape, main_vars,
                   held, hist>>

\* Lines 685-688 with the frame starting afresh without running_time = 0.
FrameBegin_KeepCount ==
    /\ window_open
    /\ ~in_frame
    /\ hist' = Append(hist, Entry("Frame", 0, 0, ~pause))
    /\ in_frame' = ~pause
    /\ UNCHANGED <<io_vars, cpu_vars, memory, mem_init, tape, shifted, ctrl,
                   inFocus, pause, window_open, running_time, held>>

\* Lines 685-688: the events are drained; if (pause == false) the frame
\* starts with running_time = 0, otherwise no instruction is executed.
FrameBegin ==
    /\ window_open
    /\ ~in_frame
    /\ hist' = Append(hist, Entry("Frame", 0, 0, ~pause))
    /\ in_frame' = ~pause
    /\ running_time' = IF pause THEN running_time ELSE 0
    /\ UNCHANGED <<io_vars, cpu_vars, memory, mem_init, tape, shifted, ctrl,
                   inFocus, pause, window_open, held>>

\* Lines 689-704: one turn of while (running_time < operations_per_frame).
FrameStep ==
    /\ in_frame
    /\ running_time < operations_per_frame
    /\ LET opcode == get_memory(pc)
           port == get_memory(pc + 1)
       IN  IF opcode = 219 THEN MachineIN(port)
           ELSE IF opcode = 211 THEN MachineOUT(port, a)
           ELSE Emulate8080Op(opcode)

\* Line 689 failing: the loop is left and the frame is drawn.
FrameEnd ==
    /\ in_frame
    /\ running_time >= operations_per_frame
    /\ in_frame' = FALSE
    /\ UNCHANGED <<io_vars, cpu_vars, memory, mem_init, tape, shifted, ctrl,
                   inFocus, pause, window_open, running_time, held, hist>>

\* The frames begun and the events handled so far.
FrameTurns ==
    Cardinality({k \in 1..Len(hist) : hist[k].op \in {"Frame", "KeyPressed"}})

\* The start-up content followed through the frames, with the program image
\* in memory.
FrameStartUps == {[u EXCEPT !.mem_init = 2] : u \in {v \in StartUps : v.sp = 5248}}

InitFrame ==
    \E u \in FrameStartUps : StateFrom(u, u.cursor_position, 0, u.vdu_buffer, FALSE, FALSE)

NextFrame ==
    \/ FrameTurns < MaxFrameTurns /\ FrameBegin
    \/ FrameStep
    \/ FrameEnd
    \/ FrameTurns < MaxFrameTurns /\ ~in_frame /\ HandleEvent("KeyPressed", Key.F4)

SpecFrame == InitFrame /\ [][NextFrame]_vars

\* The loop of lines 689-704 runs without waiting for anything: a turn that
\* can be taken is taken.
SpecFrameLive == SpecFrame /\ WF_vars(FrameStep) /\ WF_vars(FrameEnd)

(***************************************************************************)
(* Vocabulary of the properties.                                           *)
(***************************************************************************)
\* The step just taken is a write of v to port 5.
WritesPort5(v) ==
    /\ Len(hist') = Len(hist) + 1
    /\ Last'.op = "OUT" /\ Last'.x = 5 /\ Last'.y = v

\* The write of v to port 5 has bit 7 set and differs from the previous value.
Fresh(v) == v >= 128 /\ v # vdu_buffer

\* The cursor is on the screen.
CursorOnScreen == cursor_position \in 0..(PageSize - 1)

\* The physical address of logical position p when the start row is sr:
\* 0x1000 + ((64 * sr + p) mod 1024).
Physical(sr, p) == 4096 + ((64 * sr + p) % 1024)

\* The byte at address addr before and after the step.
Before(addr) == MemAt(memory, mem_init, addr)
After(addr) == MemAt(memory', mem_init', addr)

\* No cell outside cells differs after the step.
OnlyChanged(cells) ==
    \A x \in (DOMAIN memory \cup DOMAIN memory') \ cells : After(x) = Before(x)

\* The control codes of the table of the VDU controller.
TableControlCodes == {0, 4, 8, 9, 10, 11, 12, 13, 24, 25, 26, 27, 28, 29}

(***************************************************************************)
(* C1.  In every reachable state, start-up included, the cursor is in      *)
(* 0..1023 and the start row in 0..15.                                     *)
(***************************************************************************)
C1_CursorAndStartRowInRange ==
    /\ cursor_position \in 0..1023
    /\ vdu_startrow \in 0..15

(***************************************************************************)
(* C2.  A write of v to port 5 makes v the previous port-5 value; it does  *)
(* what vdu_strobe does for v if v has bit 7 set and differs from the      *)
(* previous port-5 value, and otherwise leaves the cursor, the start row   *)
(* and the memory as they are.                                             *)
(***************************************************************************)
C2_Port5Trigger ==
    [][\A v \in Byte : WritesPort5(v) =>
          /\ vdu_buffer' = v
          /\ IF v >= 128 /\ v # vdu_buffer
             THEN LET r == vdu_strobe(v, cursor_position, vdu_startrow, memory)
                  IN  /\ cursor_position' = r.cursor_position
                      /\ vdu_startrow' = r.vdu_startrow
                      /\ memory' = r.memory
             ELSE UNCHANGED <<cursor_position, vdu_startrow, memory>>]_vars

\* The code 0x8A written when it was the previous port-5 value already, with
\* the cursor above the last row: the cursor has not moved.
C2_Witness ==
    /\ hist # <<>>
    /\ Last.op = "OUT" /\ Last.x = 5 /\ Last.y = 138 /\ Last.vdu = 138
    /\ Last.cursor = 500
    /\ cursor_position = 500

(***************************************************************************)
(* C3.  Code 0x0A with the cursor on the last row, in any column: the      *)
(* cursor stays, the start row advances mod 16, and the 64 cells of the    *)
(* new last row (logical 960..1023 under the new start row) hold 0x20.     *)
(* With the cursor on rows 0..14 it adds 64 to the cursor and writes       *)
(* nothing.                                                                *)
(***************************************************************************)
C3_CursorDown ==
    [][WritesPort5(138) /\ Fresh(138) /\ CursorOnScreen =>
          IF cursor_position >= 960
          THEN /\ cursor_position' = cursor_position
               /\ vdu_startrow' = (vdu_startrow + 1) % 16
               /\ \A p \in 960..1023 : After(Physical(vdu_startrow', p)) = 32
          ELSE /\ cursor_position' = cursor_position + 64
               /\ vdu_startrow' = vdu_startrow
               /\ OnlyChanged({})]_vars

(***************************************************************************)
(* C4.  Scenario S3: from cursor 1000 and start row 0, the writes 0x80     *)
(* and 0x8A to port 5 end with cursor 1000, start row 1 and 0x20 in the    *)
(* 64 bytes at 0x1000 + ((64*1 + 936 + k) mod 1024), k in 0..63.           *)
(***************************************************************************)
\* The last two operations were the writes of S3, from the state of S3.
AfterS3 ==
    /\ Len(hist) >= 2
    /\ LET first == hist[Len(hist) - 1]
       IN  /\ first.op = "OUT" /\ first.x = 5 /\ first.y = 128
           /\ first.cursor = 1000 /\ first.startrow = 0
    /\ Last.op = "OUT" /\ Last.x = 5 /\ Last.y = 138

C5_CarriageReturnErase ==
    [][WritesPort5(141) /\ Fresh(141) /\ CursorOnScreen =>
          LET p == cursor_position
              cells == {Physical(vdu_startrow, q) : q \in p..(p - (p % 64) + 63)}
          IN  /\ cursor_position' = p - (p % 64)
              /\ vdu_startrow' = vdu_startrow
              /\ \A x \in cells : After(x) = 32
              /\ OnlyChanged(cells)]_vars

(***************************************************************************)
(* C6.  A code outside the control-code table, with the cursor at p on     *)
(* the screen, is stored at 0x1000 + ((64 * start row + p) mod 1024) and   *)
(* the cursor becomes p + 1; at p = 1023 the byte is stored, the start     *)
(* row advances mod 16, the cursor becomes 960 and logical 960..1023 of    *)
(* the new start row are blanked.  Nothing else in memory changes.         *)
(***************************************************************************)
C6_StoreChar ==
    [][\A v \in 128..255 :
          WritesPort5(v) /\ Fresh(v) /\ CursorOnScreen
                         /\ (v % 128) \notin TableControlCodes =>
          LET p == cursor_position
              cell == Physical(vdu_startrow, p)
              row == {Physical((vdu_startrow + 1) % 16, q) : q \in 960..1023}
          IN  IF p < 1023
              THEN /\ cursor_position' = p + 1
                   /\ vdu_startrow' = vdu_startrow
                   /\ After(cell) = v % 128
                   /\ OnlyChanged({cell})
              ELSE /\ cursor_position' = 960
                   /\ vdu_startrow' = (vdu_startrow + 1) % 16
                   /\ After(cell) = v % 128
                   /\ \A x \in row : After(x) = 32
                   /\ OnlyChanged({cell} \cup row)]_vars

\* 'A' written at the last position of the screen under start row 15: the
\* screen has scrolled round to start row 0.
C6_Witness ==
    /\ hist # <<>>
    /\ Last.op = "OUT" /\ Last.x = 5 /\ Last.y = 193 /\ Last.vdu # 193
    /\ Last.cursor = 1023 /\ Last.startrow = 15
    /\ cursor_position = 960 /\ vdu_startrow = 0
    /\ MemAt(memory, mem_init, 4096 + 959) = 65

(***************************************************************************)
(* C7.  A control code below 0x20 that the table does not list leaves the  *)
(* cursor, the start row and the memory unchanged.                         *)
(***************************************************************************)
C7_UnlistedCodeIgnored ==
    [][\A v \in 128..159 :
          WritesPort5(v) /\ Fresh(v) /\ CursorOnScreen
                         /\ (v % 128) \notin TableControlCodes =>
          /\ cursor_position' = cursor_position
          /\ vdu_startrow' = vdu_startrow
          /\ OnlyChanged({})]_vars

\* Amended: the codes 0x00, 0x04, 0x18 and 0x19 leave the cursor, the start
\* row and the memory unchanged; any other code below 0x20 that the table
\* does not list is stored at the cursor's cell and moves the cursor.
C7_UnlistedCodeStored ==
    [][\A v \in 128..159 : WritesPort5(v) /\ Fresh(v) /\ CursorOnScreen =>
          /\ (v % 128) \in {0, 4, 24, 25} =>
                /\ cursor_position' = cursor_position
                /\ vdu_startrow' = vdu_startrow
                /\ OnlyChanged({})
          /\ (v % 128) \notin TableControlCodes =>
                /\ cursor_position' # cursor_position
                /\ After(Physical(vdu_startrow, cursor_position)) = v % 128]_vars

\* Code 0x01 written with the cursor at 500: it is in the cell, cursor 501.
C7_Witness ==
    /\ hist # <<>>
    /\ Last.op = "OUT" /\ Last.x = 5 /\ Last.y = 129 /\ Last.vdu # 129
    /\ Last.cursor = 500
    /\ cursor_position = 501
    /\ MemAt(memory, mem_init, Physical(Last.startrow, 500)) = 1

(***************************************************************************)
(* Vocabulary of the keyboard properties.                                  *)
(***************************************************************************)
\* Entry e of the history is a key event that key_press recognised.
Recognised(e) ==
    /\ e.op \in KeyEventTypes
    /\ e.called
    /\ KeyTemp(e.x, e.shifted, e.ctrl) # 255

\* The keys that are down and whose press key_press recognised.
RecognisedHeld ==
    {k \in held : \E i \in 1..Len(hist) :
        hist[i].op = "KeyPressed" /\ hist[i].x = k /\ Recognised(hist[i])}

\* The mapping table of the keyboard port: the set holding the code of a
\* key under the modifiers, empty for a combination the table does not list.
TableNoModifier(key) ==
    CASE key \in Key.A..Key.Z       -> {97 + (key - Key.A)}
      [] key \in Key.Num0..Key.Num9 -> {48 + (key - Key.Num0)}
      [] key = Key.Escape    -> {27}
      [] key = Key.Space     -> {32}
      [] key = Key.Enter     -> {13}
      [] key = Key.Backspace -> {8}
      [] key = Key.Left      -> {8}
      [] key = Key.Right     -> {9}
      [] key = Key.Down      -> {10}
      [] key = Key.Up        -> {11}
      [] key = Key.LBracket  -> {91}
      [] key = Key.RBracket  -> {93}
      [] key = Key.Semicolon -> {59}
      [] key = Key.Comma     -> {44}
      [] key = Key.Period    -> {46}
      [] key = Key.Quote     -> {39}
      [] key = Key.Slash     -> {47}
      [] key = Key.Backslash -> {92}
      [] key = Key.Equal     -> {61}
      [] key = Key.Hyphen    -> {45}
      [] OTHER               -> {}

TableShift(key) ==
    CASE key \in Key.A..Key.Z -> {65 + (key - Key.A)}
      [] key = Key.Num0      -> {41}
      [] key = Key.Num1      -> {33}
      [] key = Key.Num2      -> {34}
      [] key = Key.Num3      -> {35}
      [] key = Key.Num4      -> {36}
      [] key = Key.Num5      -> {37}
      [] key = Key.Num6      -> {94}
      [] key = Key.Num7      -> {38}
      [] key = Key.Num8      -> {42}
      [] key = Key.Num9      -> {40}
      [] key = Key.LBracket  -> {123}
      [] key = Key.RBracket  -> {125}
      [] key = Key.Semicolon -> {58}
      [] key = Key.Comma     -> {60}
      [] key = Key.Period    -> {62}
      [] key = Key.Quote     -> {64}
      [] key = Key.Slash     -> {63}
      [] key = Key.Backslash -> {124}
      [] key = Key.Equal     -> {43}
      [] key = Key.Hyphen    -> {95}
      [] OTHER               -> {}

TableCtrl(key) ==
    CASE key \in Key.A..Key.Z -> {1 + (key - Key.A)}
      [] key = Key.Quote     -> {0}
      [] key = Key.Backslash -> {28}
      [] key = Key.LBracket  -> {27}
      [] key = Key.RBracket  -> {29}
      [] OTHER               -> {}

Table(key, sh, ct) ==
    IF ct THEN TableCtrl(key)
    ELSE IF sh THEN TableShift(key) ELSE TableNoModifier(key)

TableCodes ==
    UNION {Table(key, sh, ct) : key \in AllKeys, sh \in BOOLEAN, ct \in BOOLEAN}

(***************************************************************************)
(* C8.  Once key_press has stored a byte, bit 7 of key_buffer is 1         *)
(* exactly while at least one recognised key is down; after press A,       *)
(* press B, release A it is still 1.                                       *)
(***************************************************************************)
C8_StrobeWhileHeld ==
    (\E i \in 1..Len(hist) : Recognised(hist[i])) =>
        (Bit(key_buffer, 7) <=> RecognisedHeld # {})

(***************************************************************************)
(* C9.  After a key event that key_press handled, key_buffer is the        *)
(* table's code of the key under the modifiers, with bit 7 set on a press  *)
(* and clear on a release, or is what it was if the table does not list    *)
(* the combination; and in every state, if bit 7 of key_buffer is set its  *)
(* low 7 bits are a code of the table.                                     *)
(***************************************************************************)
C9_KeyTable ==
    /\ Bit(key_buffer, 7) => (key_buffer % 128) \in TableCodes
    /\ (hist # <<>> /\ Last.op \in KeyEventTypes /\ Last.called) =>
          LET codes == Table(Last.x, Last.shifted, Last.ctrl)
          IN  IF codes = {}
              THEN key_buffer = Last.key
              ELSE \E code \in codes :
                      key_buffer = IF Last.op = "KeyPressed" THEN code + 128 ELSE code

(***************************************************************************)
(* C10.  A read of port 0 loads A with the byte in key_buffer and leaves   *)
(* key_buffer as it is; a read that follows another returns the same       *)
(* byte; the reads that follow a press of unmodified A return 0xE1, and    *)
(* those that follow its release 0x61.                                     *)
(***************************************************************************)
\* Every operation after the i-th is a read of port 0.
OnlyReadsSince(i) ==
    \A j \in (i + 1)..Len(hist) : hist[j].op = "IN" /\ hist[j].x = 0

C10_Port0Read ==
    (hist # <<>> /\ Last.op = "IN" /\ Last.x = 0) =>
        /\ a = Last.key % 256
        /\ key_buffer = Last.key
        /\ \A i \in 1..(Len(hist) - 1) :
              /\ (hist[i].op = "IN" /\ hist[i].x = 0 /\ i = Len(hist) - 1) => a = Last.acc
              /\ ( /\ OnlyReadsSince(i)
                   /\ hist[i].op \in KeyEventTypes /\ hist[i].called
                   /\ hist[i].x = Key.A /\ ~hist[i].shifted /\ ~hist[i].ctrl ) =>
                      a = IF hist[i].op = "KeyPressed" THEN 225 ELSE 97

\* A press of unmodified A and two reads of port 0: the second returns 0xE1.
C10_Witness ==
    /\ Len(hist) = 3
    /\ hist[1].op = "KeyPressed" /\ hist[1].x = Key.A /\ hist[1].called
    /\ ~hist[1].shifted /\ ~hist[1].ctrl
    /\ hist[2].op = "IN" /\ hist[2].x = 0
    /\ hist[3].op = "IN" /\ hist[3].x = 0
    /\ a = 225 /\ key_buffer = 225

(***************************************************************************)
(* Vocabulary of the tape properties.                                      *)
(***************************************************************************)
\* The step just taken is a write of some value to the port.
WritesPort(port) ==
    /\ Len(hist') = Len(hist) + 1
    /\ Last'.op = "OUT" /\ Last'.x = port

\* The step just taken is a read of the port.
ReadsPort(port) ==
    /\ Len(hist') = Len(hist) + 1
    /\ Last'.op = "IN" /\ Last'.x = port

\* The value of A after the k-th operation of the history.
ResultAt(k) == IF k = Len(hist) THEN a ELSE hist[k + 1].acc

\* Entry e is a write of a value with bit 7 set (on) or clear (off) to port 7.
RelayOn(e) == e.op = "OUT" /\ e.x = 7 /\ e.y >= 128
RelayOff(e) == e.op = "OUT" /\ e.x = 7 /\ e.y < 128

(***************************************************************************)
(* C11.  In every state, if tape_relay is false then tape_status is idle   *)
(* and the tape file is not open.                                          *)
(***************************************************************************)
C11_RelayOffIdle ==
    ~tape_relay => (tape_status = " " /\ ~tape.is_open)

\* The relay released during a reading session that had the file open.
C11_Witness ==
    /\ hist # <<>>
    /\ RelayOff(Last)
    /\ Last.relay /\ Last.status = "r" /\ Last.tape.is_open
    /\ ~tape_relay /\ tape_status = " " /\ ~tape.is_open

(***************************************************************************)
(* C12.  Round trip: with TAPE empty and the relay off, the relay is       *)
(* engaged, n bytes are written to port 2, the relay is released and       *)
(* engaged again, and port 4 is read: the first n reads return the bytes   *)
(* written, in order, and every later read returns 0x00.                   *)
(***************************************************************************)
\* The history is a round trip of n bytes followed by reads only.
IsRoundTrip(n) ==
    /\ Len(hist) >= n + 3
    /\ RelayOn(hist[1])
    /\ ~hist[1].relay /\ hist[1].tape.exists /\ hist[1].tape.data = <<>>
    /\ \A i \in 2..(n + 1) : hist[i].op = "OUT" /\ hist[i].x = 2
    /\ RelayOff(hist[n + 2])
    /\ RelayOn(hist[n + 3])
    /\ \A k \in (n + 4)..Len(hist) : hist[k].op = "IN" /\ hist[k].x = 4

C12_TapeRoundTrip ==
    \A n \in 1..Len(hist) : IsRoundTrip(n) =>
        \A k \in (n + 4)..Len(hist) :
            LET j == k - (n + 3)
            IN  ResultAt(k) = IF j <= n THEN hist[1 + j].y ELSE 0

(***************************************************************************)
(* C13.  When the file TAPE does not exist, every read of port 4 made      *)
(* with the relay on returns 0x00 in A.                                    *)
(***************************************************************************)
C13_MissingTapeReadsZero ==
    (hist # <<>> /\ Last.op = "IN" /\ Last.x = 4 /\ Last.relay /\ ~Last.tape.exists) =>
        a = 0

(***************************************************************************)
(* C14.  A reading session stays a reading session and a writing session   *)
(* a writing session until a write to port 7 with bit 7 clear, which is    *)
(* the only step that makes tape_status idle; a write to port 2 during a   *)
(* reading session leaves the file and the stream as they are, and so      *)
(* does a read of port 4 during a writing session.                         *)
(***************************************************************************)
C14_SessionMode ==
    [][/\ (tape_status # " " /\ tape_status' # tape_status) =>
              /\ tape_status' = " "
              /\ WritesPort(7) /\ Last'.y < 128
              /\ tape_relay /\ ~tape_relay'
       /\ (tape_status # " " /\ ~(WritesPort(7) /\ Last'.y < 128)) =>
              tape_status' = tape_status
       /\ (tape_status = "r" /\ WritesPort(2)) => tape' = tape
       /\ (tape_status = "w" /\ ReadsPort(4)) => tape' = tape]_vars

\* A write to port 2 in a reading session that had read a byte: the session
\* is still reading and the file is what it was.
C14_Witness ==
    /\ hist # <<>>
    /\ Last.op = "OUT" /\ Last.x = 2
    /\ Last.relay /\ Last.status = "r" /\ Last.tape.pos > 0
    /\ tape_status = "r" /\ tape = Last.tape

(***************************************************************************)
(* Vocabulary of the panel properties.                                     *)
(***************************************************************************)
\* The step just taken is the event loop's turn for a press of the key.
Presses(code) ==
    /\ Len(hist') = Len(hist) + 1
    /\ Last'.op = "KeyPressed" /\ Last'.x = code

(***************************************************************************)
(* C15.  F2 (vector 0x0008) or F3 (vector 0x0010) pressed while INTE is    *)
(* set, whatever SP is: INTE is cleared, the low byte of the old PC is at  *)
(* address (SP-2) mod 65536 and the high byte at (SP-1) mod 65536, SP is   *)
(* (SP-2) mod 65536, PC is the vector, and no other memory cell, register  *)
(* or I/O register has changed.                                            *)
(***************************************************************************)
C15_PanelInterrupt ==
    [][\A code \in {Key.F2, Key.F3} : Presses(code) /\ inFocus /\ int_enable =>
          LET lo == (sp - 2) % 65536
              hi == (sp - 1) % 65536
          IN  /\ int_enable' = FALSE
              /\ After(lo) = pc % 256
              /\ After(hi) = pc \div 256
              /\ OnlyChanged({lo, hi})
              /\ sp' = lo
              /\ pc' = IF code = Key.F2 THEN 8 ELSE 16
              /\ UNCHANGED <<a, io_vars>>]_vars

(***************************************************************************)
(* C16.  F2 or F3 pressed while INTE is clear changes nothing: PC, SP,     *)
(* INTE, A, the memory, the I/O registers (key_buffer among them) and the  *)
(* tape are what they were.                                                *)
(***************************************************************************)
C16_PanelInterruptDisabled ==
    [][\A code \in {Key.F2, Key.F3} : Presses(code) /\ ~int_enable =>
          UNCHANGED <<pc, sp, int_enable, a, memory, io_vars, tape>>]_vars

\* F2 pressed in the focused window with INTE clear, after an operation that
\* moved PC: PC and SP are what they were.
C16_Witness ==
    /\ Len(hist) >= 2
    /\ Last.op = "KeyPressed" /\ Last.x = Key.F2
    /\ Last.focus /\ ~Last.inte /\ Last.pc # 0
    /\ pc = Last.pc /\ sp = Last.sp /\ ~int_enable

(***************************************************************************)
(* C17.  F1 pressed in the focused window sets PC to 0 and INTE to 0 and   *)
(* changes nothing else: SP, A, the memory, the I/O registers, the tape    *)
(* and the pause flag are what they were.                                  *)
(***************************************************************************)
C17_PanelReset ==
    [][Presses(Key.F1) /\ inFocus =>
          /\ pc' = 0
          /\ int_enable' = FALSE
          /\ UNCHANGED <<sp, a, memory, io_vars, tape, pause>>]_vars

\* F1 pressed with INTE set and PC moved on: PC is 0, INTE clear, SP kept.
C17_Witness ==
    /\ Len(hist) >= 2
    /\ Last.op = "KeyPressed" /\ Last.x = Key.F1
    /\ Last.focus /\ Last.inte /\ Last.pc # 0 /\ Last.sp # 0
    /\ pc = 0 /\ ~int_enable /\ sp = Last.sp

(***************************************************************************)
(* C19.  Before the first operation the machine is in one state: PC = 0,   *)
(* INTE = 0, cursor_position = 0, vdu_startrow = 0, tape_relay false,      *)
(* tape_status idle, oscillator false, uart_status = 0x11, and             *)
(* key_buffer, led_buffer, vdu_buffer and port6 hold the same values at    *)
(* every start-up.                                                         *)
(***************************************************************************)
C19_DeterministicStartUp ==
    hist = <<>> =>
        /\ pc = 0
        /\ ~int_enable
        /\ cursor_position = 0
        /\ vdu_startrow = 0
        /\ ~tape_relay
        /\ tape_status = " "
        /\ ~oscillator
        /\ uart_status = 17
        /\ LET fixed == CHOOSE u \in StartUps : TRUE
           IN  /\ key_buffer = fixed.key_buffer
               /\ led_buffer = fixed.led_buffer
               /\ vdu_buffer = fixed.vdu_buffer
               /\ port6 = fixed.port6

(***************************************************************************)
(* C18.  Memory is a store of 65 536 cells, every address 0x0000..0xFFFF   *)
(* being one of them: every cell stored to, by the ROM loads at start-up   *)
(* in particular, is a cell of main_memory.                                *)
(***************************************************************************)
C18_StoresInsideMemory == \A x \in DOMAIN memory : x \in 0..(MemSize - 1)

(***************************************************************************)
(* Vocabulary of the scroll claim.                                         *)
(***************************************************************************)
\* The port-5 writes so far that made the VDU act on code 0x0A.
LineFeedsIssued ==
    {k \in 1..Len(hist) :
        hist[k].op = "OUT" /\ hist[k].x = 5 /\ hist[k].y % 128 = 10 /\ hist[k].called}

\* Everything done so far is a port-5 write of code 0x0A, with bit 7 set or
\* clear, begun with the cursor at 0.
OnlyLineFeedsFromHome ==
    /\ hist # <<>>
    /\ hist[1].cursor = 0
    /\ \A k \in 1..Len(hist) :
          hist[k].op = "OUT" /\ hist[k].x = 5 /\ hist[k].y % 128 = 10

(***************************************************************************)
(* C20.  From cursor_position = 0, code 0x0A issued sixteen times through  *)
(* port 5 leaves vdu_startrow advanced by one modulo 16 and the top        *)
(* logical row (positions 0..63 under the new start row) all 0x20.         *)
(***************************************************************************)
C20_ScrollAsStated ==
    (OnlyLineFeedsFromHome /\ Cardinality(LineFeedsIssued) = 16) =>
        /\ vdu_startrow = (hist[1].startrow + 1) % 16
        /\ \A k \in 0..63 :
              MemAt(memory, mem_init, Physical(vdu_startrow, k)) = 32

\* Amended: each of the sixteen issues is a write of 0x8A that differs from
\* the previous port-5 value.  The first fifteen move the cursor down one
\* row each and write nothing; the sixteenth leaves the cursor at 960,
\* advances vdu_startrow by one modulo 16 and blanks the last logical row
\* (positions 960..1023 under the new start row, the cells of the former
\* top row) and no other cell.
C20_ScrollAmended ==
    OnlyLineFeedsFromHome =>
        LET n == Cardinality(LineFeedsIssued)
            last == {Physical(vdu_startrow, 960 + k) : k \in 0..63}
        IN  /\ n < 16 =>
                /\ cursor_position = 64 * n
                /\ vdu_startrow = hist[1].startrow
                /\ memory = <<>>
            /\ n = 16 =>
                /\ cursor_position = 960
                /\ vdu_startrow = (hist[1].startrow + 1) % 16
                /\ DOMAIN memory = last
                /\ \A x \in last : MemAt(memory, mem_init, x) = 32
                /\ last = {Physical(hist[1].startrow, k) : k \in 0..63}

C20_Witness ==
    /\ OnlyLineFeedsFromHome
    /\ Cardinality(LineFeedsIssued) = 16
    /\ hist[1].startrow = 15
    /\ vdu_startrow = 0
    /\ cursor_position = 960
    /\ mem_init = 1
    /\ MemAt(memory, mem_init, Physical(0, 0)) # 32

(***************************************************************************)
(* C21.  An IN from a port other than 0, 1 and 4 leaves A, every I/O       *)
(* register and the tape unchanged; an OUT to a port other than 2, 3, 5, 6 *)
(* and 7 changes no I/O register, not the tape and no memory; no port      *)
(* access modifies uart_status, and an IN from port 1 yields 0x11.         *)
(***************************************************************************)
C21_PortDispatch ==
    [][/\ \A port \in AllPorts \ {0, 1, 4} :
             ReadsPort(port) => UNCHANGED <<a, io_vars, tape, memory>>
       /\ \A port \in AllPorts \ {2, 3, 5, 6, 7} :
             WritesPort(port) => UNCHANGED <<io_vars, tape, memory>>
       /\ uart_status' = uart_status
       /\ ReadsPort(1) => a' = 17]_vars

C21_Witness ==
    /\ Len(hist) = 2
    /\ hist[1].op = "OUT" /\ hist[1].x = 8 /\ hist[1].y = 138
    /\ Last.op = "IN" /\ Last.x = 255
    /\ Last.acc = 138
    /\ a = 138

(***************************************************************************)
(* Vocabulary of the frame claim.                                          *)
(***************************************************************************)
\* The opcode at PC is IN (0xDB) or OUT (0xD3).
AtPortOpcode == get_memory(pc) \in {219, 211}

\* The step just taken begins a frame.
BeginsFrame ==
    /\ Len(hist') = Len(hist) + 1
    /\ Last'.op = "Frame"

(***************************************************************************)
(* C22.  While not paused a frame executes instructions, IN and OUT        *)
(* charged 10 T-states and moving PC on by 2, every other opcode charged   *)
(* what the CPU step returns, and it stops at the first instruction        *)
(* boundary where the T-states charged reach 32 000; every instruction     *)
(* costing at least 4, the frame ends; the count starts from 0 in each     *)
(* frame.  A frame begun while paused executes no instruction and changes  *)
(* no CPU, memory or I/O state.                                            *)
(***************************************************************************)
C22_FrameMetering ==
    /\ [][/\ (in_frame /\ in_frame') =>
                /\ running_time < 32000
                /\ running_time' - running_time
                      = (IF AtPortOpcode THEN 10 ELSE StepCycles(get_memory(pc)))
                /\ running_time' - running_time >= 4
                /\ AtPortOpcode => pc' = (pc + 2) % 65536
          /\ (in_frame /\ ~in_frame') =>
                /\ running_time >= 32000
                /\ UNCHANGED <<cpu_vars, io_vars, memory, tape>>
          /\ (in_frame /\ running_time >= 32000) => ~in_frame'
          /\ (BeginsFrame /\ ~pause) => (in_frame' /\ running_time' = 0)
          /\ (BeginsFrame /\ pause) =>
                (~in_frame' /\ UNCHANGED <<cpu_vars, io_vars, memory, tape>>)
         ]_vars
    /\ (in_frame ~> ~in_frame)

C22_Witness ==
    /\ ~in_frame
    /\ Len(hist) > 2
    /\ hist[1].op = "Frame" /\ hist[1].called
    /\ Last.op = "IN" /\ Last.x = 1
    /\ a = 17
    /\ running_time > 32000
    /\ running_time < 32010
    /\ pc > 7000

(***************************************************************************)
(* Vocabulary of the video-page claims.                                    *)
(***************************************************************************)
\* The addresses of the video page, 0x1000..0x13FF.
VideoPage == 4096..5119

\* The cells the step stored to: those memory holds only after it and
\* those whose byte differs.
Written ==
    {x \in DOMAIN memory' : x \notin DOMAIN memory \/ memory'[x] # memory[x]}

(***************************************************************************)
(* C23.  With cursor_position in [0,1024) and vdu_startrow in [0,16), a    *)
(* write to port 5 stores only to addresses in [0x1000, 0x1400), every     *)
(* byte it stores is in [0,127], and memory outside the video page is      *)
(* unchanged.                                                              *)
(***************************************************************************)
C23_WritesInVideoPage ==
    [][(WritesPort(5) /\ CursorOnScreen /\ vdu_startrow \in 0..15) =>
          /\ \A x \in Written : x \in VideoPage /\ memory'[x] \in 0..127
          /\ OnlyChanged(VideoPage)]_vars

C23_Witness ==
    /\ hist # <<>>
    /\ Last.op = "OUT" /\ Last.x = 5 /\ Last.y = 193 /\ Last.called
    /\ Last.cursor = 1023
    /\ Last.startrow = 15
    /\ 5119 \in DOMAIN memory
    /\ memory[5119] = 32
    /\ \E x \in VideoPage \cap DOMAIN memory : memory[x] = 65

(***************************************************************************)
(* Vocabulary of the scroll-equivalence claim.                             *)
(***************************************************************************)
\* The 7-bit code of the port-5 value v is stored as a character (it is
\* none of the codes vdu_strobe acts on or ignores).
StoredAsChar(v) ==
    v % 128 \notin {0, 4, 8, 9, 10, 11, 12, 13, 24, 25, 26, 27, 28, 29}

\* The write of v scrolls: 0x0A with the cursor on the last row, a
\* character stored at position 1023, or 0x1B.
Scrolls(v) ==
    \/ v % 128 = 10 /\ cursor_position >= 960
    \/ StoredAsChar(v) /\ cursor_position = 1023
    \/ v % 128 = 27

\* The byte at addr before the scroll: the stored character at the cell of
\* position 1023 when the write stores one, the byte before the step
\* otherwise.
PreScroll(v, addr) ==
    IF StoredAsChar(v) /\ addr = Physical(vdu_startrow, 1023)
    THEN v % 128
    ELSE Before(addr)

(***************************************************************************)
(* C24.  After any scroll (0x0A on the last row at any column, a character *)
(* stored at position 1023, or 0x1B) logical row r under the new start row *)
(* holds what logical row r+1 held before the scroll, for r in 0..14 and   *)
(* every column; for 0x1B video RAM is unchanged and the cursor stays on   *)
(* the same physical cell.                                                 *)
(***************************************************************************)
C24_ScrollKeepsRows ==
    [][\A v \in 128..255 :
          (WritesPort5(v) /\ Fresh(v) /\ CursorOnScreen /\ vdu_startrow \in 0..15
              /\ Scrolls(v)) =>
              /\ \A r \in 0..14 : \A c \in 0..63 :
                    After(Physical(vdu_startrow', 64 * r + c))
                        = PreScroll(v, Physical(vdu_startrow, 64 * (r + 1) + c))
              /\ v % 128 = 27 =>
                    /\ OnlyChanged({})
                    /\ Physical(vdu_startrow', cursor_position')
                          = Physical(vdu_startrow, cursor_position)]_vars

(***************************************************************************)
(* Vocabulary of the append-only claim.                                    *)
(***************************************************************************)
\* Sequence p is an initial part of sequence q.
IsPrefix(p, q) == Len(p) <= Len(q) /\ \A k \in 1..Len(p) : q[k] = p[k]

\* The port-4 reads made so far in the reading session under way: those
\* since the read that found the tape idle and opened the file.
SessionReads ==
    IF tape_status # "r" THEN 0
    ELSE LET opens == {j \in 1..Len(hist) :
                          hist[j].op = "IN" /\ hist[j].x = 4 /\ hist[j].relay
                              /\ hist[j].status = " "}
             start == CHOOSE j \in opens : \A i \in opens : i <= j
         IN  Cardinality({k \in start..Len(hist) : hist[k].op = "IN" /\ hist[k].x = 4})

(***************************************************************************)
(* C25.  No access to port 2, 4 or 7 removes or alters a byte already in   *)
(* TAPE; a write to port 2 in a writing session appends its byte after the *)
(* existing content; a reading session starts from the first byte of the   *)
(* file, its n-th read returning the n-th byte of the file, older content  *)
(* before bytes written in later sessions.                                 *)
(***************************************************************************)
C25_TapeAppendOnly ==
    [][/\ IsPrefix(tape.data, tape'.data)
       /\ (WritesPort(2) /\ tape_relay /\ tape_status # "r") =>
             tape'.data = Append(tape.data, Last'.y)
       /\ ~(WritesPort(2) /\ tape_relay /\ tape_status # "r") =>
             tape'.data = tape.data
       /\ (ReadsPort(4) /\ tape_relay /\ tape_status # "w"
               /\ SessionReads < Len(tape.data)) =>
             a' = tape.data[SessionReads + 1]]_vars

C25_Witness ==
    /\ Len(hist) = 6
    /\ hist[1].op = "OUT" /\ hist[1].x = 2 /\ hist[1].y = 17
    /\ hist[1].relay /\ hist[1].status = " " /\ hist[1].tape.data = <<17, 34>>
    /\ RelayOff(hist[2])
    /\ RelayOn(hist[3])
    /\ \A k \in 4..6 : hist[k].op = "IN" /\ hist[k].x = 4
    /\ hist[5].acc = 17
    /\ hist[6].acc = 34
    /\ a = 17
    /\ tape.data = <<17, 34, 17>>

====
